---- MODULE Spec2Model ----
(***************************************************************************)
(* WaybackTweets: the URL canonicalizer (utils/utils.py), the embed        *)
(* resolver and the two record assemblers (parse.py).                      *)
(*                                                                         *)
(* A Python str is modelled as a sequence of one-character strings, so     *)
(* that the regular expressions, str.lower, str.count, urlparse and the    *)
(* f-strings of the source are computed character by character.  Indexes   *)
(* are 1-based; position 0 stands for "no match" (Python's None / -1).     *)
(***************************************************************************)
EXTENDS Naturals, Sequences, FiniteSets

\* ------------------------------------------------------------ literals

\* the string literals of the source
S_status == <<"/", "s", "t", "a", "t", "u", "s", "/">>
S_twitter_root == <<"h", "t", "t", "p", "s", ":", "/", "/", "t", "w", "i", "t", "t", "e", "r", ".", "c", "o", "m", "/">>
S_twitter_origin == <<"h", "t", "t", "p", "s", ":", "/", "/", "t", "w", "i", "t", "t", "e", "r", ".", "c", "o", "m">>
S_twitter_com == <<"t", "w", "i", "t", "t", "e", "r", ".", "c", "o", "m">>
S_https_prefix == <<"h", "t", "t", "p", "s", ":", "/", "/">>
S_scheme_sep == <<":", "/", "/">>
S_http_colon == <<"h", "t", "t", "p", ":">>
S_https_colon == <<"h", "t", "t", "p", "s", ":">>
S_wayback_root == <<"h", "t", "t", "p", "s", ":", "/", "/", "w", "e", "b", ".", "a", "r", "c", "h", "i", "v", "e", ".", "o", "r", "g", "/", "w", "e", "b", "/">>
S_commoncrawl_root == <<"h", "t", "t", "p", "s", ":", "/", "/", "c", "o", "m", "m", "o", "n", "c", "r", "a", "w", "l", ".", "o", "r", "g", "/">>
S_quot_semi == <<"&", "q", "u", "o", "t", ";">>
S_quot_pct == <<"&", "q", "u", "o", "t", "%", "3", "B">>
S_quot == <<"q", "u", "o", "t">>
S_amp == <<"a", "m", "p">>
S_pct3B == <<"%", "3", "B">>
\* the pattern "https://twitter.com/" of pattern_id, whose '.' is not escaped
\* and so matches any character (written "<any>")
S_twitter_root_anydot == <<"h", "t", "t", "p", "s", ":", "/", "/", "t", "w", "i", "t", "t", "e", "r", "<any>", "c", "o", "m", "/">>

\* one character each
DQUOTE == "\""
\* U+2019 RIGHT SINGLE QUOTATION MARK, one character of a str
RSQUO == "U+2019"

UpperCase == <<"A", "B", "C", "D", "E", "F", "G", "H", "I", "J", "K", "L", "M", "N", "O", "P", "Q", "R", "S", "T", "U", "V", "W", "X", "Y", "Z">>
LowerCase == <<"a", "b", "c", "d", "e", "f", "g", "h", "i", "j", "k", "l", "m", "n", "o", "p", "q", "r", "s", "t", "u", "v", "w", "x", "y", "z">>
Digits == {"0", "1", "2", "3", "4", "5", "6", "7", "8", "9"}
Letters == {UpperCase[k] : k \in 1..26} \cup {LowerCase[k] : k \in 1..26}

\* ------------------------------------------------------ str operations

Min(S) == CHOOSE x \in S : \A y \in S : x <= y

\* s[i:i+len(p)] == p   (i is 1-based)
StartsAt(s, i, p) ==
    /\ i >= 1
    /\ i + Len(p) <= Len(s) + 1
    /\ \A k \in 1..Len(p) : s[i + k - 1] = p[k]

\* the same for a regex literal in which "<any>" is the regex '.'
StartsAtPat(s, i, p) ==
    /\ i >= 1
    /\ i + Len(p) <= Len(s) + 1
    /\ \A k \in 1..Len(p) : p[k] = "<any>" \/ s[i + k - 1] = p[k]

\* str.find(p, start): the least position >= start where p occurs, 0 if none
str_find(s, p, start) ==
    LET hits == {i \in start..Len(s) : StartsAt(s, i, p)}
    IN  IF hits = {} THEN 0 ELSE Min(hits)

\* p in s
str_in(p, s) == Len(p) = 0 \/ str_find(s, p, 1) # 0

\* str.count(p): non-overlapping occurrences, left to right
RECURSIVE count_from(_, _, _)
count_from(s, p, start) ==
    LET j == str_find(s, p, start)
    IN  IF j = 0 THEN 0 ELSE 1 + count_from(s, p, j + Len(p))

str_count(s, p) == count_from(s, p, 1)

lower_char(c) ==
    IF \E k \in 1..26 : UpperCase[k] = c
    THEN LowerCase[CHOOSE k \in 1..26 : UpperCase[k] = c]
    ELSE c

\* str.lower()
str_lower(s) == [i \in 1..Len(s) |-> lower_char(s[i])]

\* s[i:]  (1-based i; empty when i is past the end)
Tail_from(s, i) == IF i > Len(s) THEN <<>> ELSE SubSeq(s, i, Len(s))

\* the position after the longest run of characters of set C starting at i
RECURSIVE run_end(_, _, _)
run_end(s, i, C) ==
    IF i <= Len(s) /\ s[i] \in C THEN run_end(s, i + 1, C) ELSE i

\* str.strip('"')
RECURSIVE lstrip_quote(_)
lstrip_quote(s) ==
    IF Len(s) > 0 /\ s[1] = DQUOTE THEN lstrip_quote(Tail(s)) ELSE s

RECURSIVE rstrip_quote(_)
rstrip_quote(s) ==
    IF Len(s) > 0 /\ s[Len(s)] = DQUOTE
    THEN rstrip_quote(SubSeq(s, 1, Len(s) - 1))
    ELSE s

strip_quote(s) == rstrip_quote(lstrip_quote(s))

\* str.replace("’", "")
remove_rsquo(s) == SelectSeq(s, LAMBDA c : c # RSQUO)

\* "".join(pieces[lo..hi]), halving the range
RECURSIVE join_range(_, _, _)
join_range(pieces, lo, hi) ==
    IF lo > hi THEN <<>>
    ELSE IF lo = hi THEN pieces[lo]
    ELSE join_range(pieces, lo, (lo + hi) \div 2) \o join_range(pieces, (lo + hi) \div 2 + 1, hi)

\* "".join(pieces)
join(pieces) == join_range(pieces, 1, Len(pieces))

\* ------------------------------------------- urllib.parse, html (stdlib)

\* the byte a %XX escape stands for; "" when XX is not in the table.  The table
\* holds the escapes that occur in the inputs of this model.
pct_byte(h) ==
    CASE h = <<"2", "2">> -> DQUOTE
      [] h = <<"2", "6">> -> "&"
      [] h = <<"2", "5">> -> "%"
      [] h = <<"3", "B">> -> ";"
      [] h = <<"3", "b">> -> ";"
      [] OTHER -> ""

S_pct_rsquo == <<"%", "E", "2", "%", "8", "0", "%", "9", "9">>

\* whether a %XX escape of the table starts at position i
escape_at(s, i) ==
    /\ i >= 1 /\ i + 2 <= Len(s)
    /\ s[i] = "%"
    /\ pct_byte(SubSeq(s, i + 1, i + 2)) # ""

\* urllib.parse.unquote: each %XX becomes its byte and the UTF-8 bytes E2 80 99
\* decode to U+2019.  The two hex digits of an escape are not '%', so escapes
\* do not overlap and what position i contributes depends on s[i-8..i+8] only.
unquote(s) ==
    join([i \in 1..Len(s) |->
            IF StartsAt(s, i, S_pct_rsquo) THEN <<RSQUO>>
            ELSE IF \E k \in 1..8 : StartsAt(s, i - k, S_pct_rsquo) THEN <<>>
            ELSE IF escape_at(s, i) THEN <<pct_byte(SubSeq(s, i + 1, i + 2))>>
            ELSE IF escape_at(s, i - 1) \/ escape_at(s, i - 2) THEN <<>>
            ELSE <<s[i]>>])

\* whether the character reference &quot (&amp) starts at position i
quot_at(s, i) == StartsAt(s, i, <<"&">> \o S_quot)
amp_at(s, i) == StartsAt(s, i, <<"&">> \o S_amp)

\* html.unescape for the character references &quot and &amp (with or without
\* the closing ';'): the reference becomes its character and whatever follows
\* the name is kept.  A name holds no '&', so references do not overlap.
html_unescape(s) ==
    join([i \in 1..Len(s) |->
            IF quot_at(s, i) THEN <<DQUOTE>>
            ELSE IF amp_at(s, i) THEN <<"&">>
            ELSE IF \E k \in 1..4 : quot_at(s, i - k) THEN <<>>
            ELSE IF \E k \in 1..3 : amp_at(s, i - k) THEN <<>>
            ELSE IF s[i] = ";" /\ (quot_at(s, i - 5) \/ amp_at(s, i - 4)) THEN <<>>
            ELSE <<s[i]>>])

scheme_chars == Letters \cup Digits \cup {"+", "-", "."}

\* the schemes of urllib.parse.uses_params that the inputs can carry
uses_params == {<<>>, <<"h", "t", "t", "p">>, <<"h", "t", "t", "p", "s">>, <<"f", "t", "p">>}

\* the least position >= start of a character of set C, Len(s) + 1 if none
first_of(s, start, C) ==
    LET hits == {i \in start..Len(s) : s[i] \in C}
    IN  IF hits = {} THEN Len(s) + 1 ELSE Min(hits)

\* the element of a singleton.  Only({e : x \in {v}}) is e with v for x, and v
\* is evaluated once however often e reads x.
Only(S) == CHOOSE x \in S : TRUE

\* urllib.parse.urlsplit: <<scheme, url after the scheme and the netloc>>
urlsplit_rest(url) ==
    Only({ Only({ Only({ <<IF has_scheme THEN str_lower(SubSeq(url, 1, i - 1)) ELSE <<>>,
                           IF StartsAt(u1, 1, <<"/", "/">>)
                           THEN Tail_from(u1, first_of(u1, 3, {"/", "?", "#"}))
                           ELSE u1>>
                         : u1 \in {IF has_scheme THEN Tail_from(url, i + 1) ELSE url} })
                  : has_scheme \in {/\ i > 1
                                    /\ url[1] \in Letters
                                    /\ \A k \in 1..(i - 1) : url[k] \in scheme_chars} })
           : i \in {str_find(url, <<":">>, 1)} })

\* urllib.parse._splitparams(url)[0]
splitparams(url) ==
    LET slashes == {i \in 1..Len(url) : url[i] = "/"}
        from == IF slashes = {} THEN 1 ELSE CHOOSE i \in slashes : \A j \in slashes : j <= i
        i == str_find(url, <<";">>, from)
    IN  IF i = 0 THEN url ELSE SubSeq(url, 1, i - 1)

\* urlparse(url).path: the fragment, then the query, then the params are cut
urlparse_path(url) ==
    Only({ Only({ Only({ Only({ IF sr[1] \in uses_params /\ str_in(<<";">>, u4)
                                THEN splitparams(u4)
                                ELSE u4
                                : u4 \in {SubSeq(u3, 1, first_of(u3, 1, {"?"}) - 1)} })
                         : u3 \in {SubSeq(sr[2], 1, first_of(sr[2], 1, {"#"}) - 1)} })
                  : sr \in {urlsplit_rest(u)} })
           : u \in {url} })

\* ------------------------------------------------- utils/utils.py

\* a call's outcome: the value returned, or the exception raised
Return(v) == [exc |-> "", val |-> v]
Raise(e) == [exc |-> e, val |-> <<>>]

\* re.compile(r"/status/(\d+)").search(s): [pos, g1]; pos = 0 is None
search_status_id(s) ==
    LET hits == {i \in 1..Len(s) : StartsAt(s, i, S_status) /\ i + 8 <= Len(s) /\ s[i + 8] \in Digits}
    IN  IF hits = {} THEN [pos |-> 0, g1 |-> <<>>]
        ELSE LET i == Min(hits)
             IN  [pos |-> i, g1 |-> SubSeq(s, i + 8, run_end(s, i + 8, Digits) - 1)]

\* the same with the rewriting of lines 85-86 left out
clean_tweet_url_unchanged(tweet_url, username) == Return(tweet_url)

clean_tweet_url(tweet_url, username) ==
    LET tweet_lower == str_lower(tweet_url)
        match_lower_case == search_status_id(tweet_lower)
        match_original_case == search_status_id(tweet_url)
    IN  IF match_lower_case.pos # 0 /\ str_in(username, tweet_lower)
        THEN IF match_original_case.pos = 0
             THEN Raise("AttributeError")
             ELSE Return(S_twitter_root \o username \o S_status \o match_original_case.g1)
        ELSE Return(tweet_url)

\* the three alternatives of check_pattern_tweet's pattern after "/status/" at
\* position j: [ok, g] with g the group (2, 3 or 4) that took part
quoted_alt(s, j) ==
    IF StartsAt(s, j, <<DQUOTE>>)
    THEN LET close == str_find(s, <<DQUOTE>>, j + 1)
         IN  IF close = 0 THEN [ok |-> FALSE, g |-> <<>>]
             ELSE [ok |-> TRUE, g |-> SubSeq(s, j + 1, close - 1)]
    ELSE IF StartsAt(s, j, S_quot_semi)
    THEN [ok |-> TRUE, g |-> SubSeq(s, j + 6, first_of(s, j + 6, {"&"}) - 1)]
    ELSE IF StartsAt(s, j, S_quot_pct)
    THEN [ok |-> TRUE, g |-> SubSeq(s, j + 8, first_of(s, j + 8, {"&"}) - 1)]
    ELSE [ok |-> FALSE, g |-> <<>>]

check_pattern_tweet(tweet_url) ==
    LET hits == {i \in 1..Len(tweet_url) :
                    StartsAt(tweet_url, i, S_status) /\ quoted_alt(tweet_url, i + 8).ok}
    IN  IF hits # {}
        THEN html_unescape(quoted_alt(tweet_url, Min(hits) + 8).g)
        ELSE tweet_url

WordChars == Letters \cup Digits \cup {"_"}

\* pattern_username.match(s): anchored at the start; the group ([^/]+), <<>> if None
match_username(s) ==
    IF StartsAt(s, 1, S_twitter_root)
    THEN LET e == first_of(s, 21, {"/"})
         IN  IF e > 21 /\ StartsAt(s, e, S_status) /\ e + 8 <= Len(s) /\ s[e + 8] \in Digits
             THEN SubSeq(s, 21, e - 1)
             ELSE <<>>
    ELSE <<>>

\* re.search(pattern_id, s): the group (\d+) of the leftmost match, <<>> if None
search_id(s) ==
    LET ok(i) == /\ StartsAtPat(s, i, S_twitter_root_anydot)
                 /\ LET e == run_end(s, i + 20, WordChars)
                    IN  e > i + 20 /\ StartsAt(s, e, S_status) /\ e + 8 <= Len(s) /\ s[e + 8] \in Digits
        hits == {i \in 1..Len(s) : ok(i)}
    IN  IF hits = {} THEN <<>>
        ELSE LET d == run_end(s, Min(hits) + 20, WordChars) + 8
             IN  SubSeq(s, d, run_end(s, d, Digits) - 1)

delete_tweet_pathnames(tweet_url) ==
    LET username == match_username(tweet_url)
        tweet_id == search_id(tweet_url)
    IN  IF tweet_id # <<>> /\ username # <<>>
        THEN S_twitter_root \o username \o S_status \o tweet_id
        ELSE tweet_url

check_double_status(wayback_machine_url, original_tweet_url) ==
    /\ str_count(wayback_machine_url, S_status) = 2
    /\ ~ str_in(S_twitter_com, original_tweet_url)

\* the same with no character replaced
semicolon_parser_unescaped(string) == string

semicolon_parser(string) ==
    join([i \in 1..Len(string) |-> IF string[i] = ";" THEN S_pct3B ELSE <<string[i]>>])

is_tweet_url(twitter_url) == str_count(twitter_url, S_status) = 1

\* the scheme of a match of r"(http:|https:)(/{2,})" that starts at position i,
\* <<>> when none does
scheme_match_at(url, i) ==
    IF StartsAt(url, i, S_http_colon \o <<"/", "/">>) THEN S_http_colon
    ELSE IF StartsAt(url, i, S_https_colon \o <<"/", "/">>) THEN S_https_colon
    ELSE <<>>

\* the position where the run of '/' that holds position i starts
RECURSIVE slash_run_start(_, _)
slash_run_start(url, i) ==
    IF i > 1 /\ url[i - 1] = "/" THEN slash_run_start(url, i - 1) ELSE i

\* whether position i lies in a match that starts before it: in the scheme,
\* or in the run of slashes after it
in_scheme_match(url, i) ==
    \/ \E k \in 1..5 : scheme_match_at(url, i - k) # <<>> /\ k < Len(scheme_match_at(url, i - k))
    \/ /\ url[i] = "/"
       /\ \/ scheme_match_at(url, slash_run_start(url, i) - 5) = S_http_colon
          \/ scheme_match_at(url, slash_run_start(url, i) - 6) = S_https_colon

\* re.sub(r"(http:|https:)(/{2,})", scheme + "//", url).  A match holds no
\* start of another match, so the matches re.sub finds from left to right are
\* all the positions where the pattern matches.
check_url_scheme(url) ==
    join([i \in 1..Len(url) |->
            IF scheme_match_at(url, i) # <<>> THEN scheme_match_at(url, i) \o <<"/", "/">>
            ELSE IF in_scheme_match(url, i) THEN <<>>
            ELSE <<url[i]>>])

DigitSeq == <<"0", "1", "2", "3", "4", "5", "6", "7", "8", "9">>
digit_val(c) == (CHOOSE n \in 1..10 : DigitSeq[n] = c) - 1
two_digits(s, i) == 10 * digit_val(s[i]) + digit_val(s[i + 1])

\* Optional[T]: None is the empty sequence, a value v is <<v>>
None == <<>>
Some(v) == <<v>>

\* timestamp_parser on the timestamps the CDX index returns: a string of digits
\* YYYY[MM[DD[HH[MM[SS]]]]] with two digits per field after the year, naming a
\* valid date (strptime's first matching format; the missing fields default to
\* 01/01 00:00:00), and None for a string that holds a non-digit.  strptime's
\* reading of digit strings of other shapes is outside the inputs of the model.
timestamp_parser(timestamp) ==
    LET n == Len(timestamp)
        field(k, default) == IF n >= 4 + 2 * k THEN SubSeq(timestamp, 3 + 2 * k, 4 + 2 * k) ELSE default
        in_range(k, lo, hi) == n < 4 + 2 * k \/ (two_digits(timestamp, 3 + 2 * k) >= lo /\ two_digits(timestamp, 3 + 2 * k) <= hi)
    IN  IF /\ n \in {4, 6, 8, 10, 12, 14}
           /\ \A i \in 1..n : timestamp[i] \in Digits
           /\ SubSeq(timestamp, 1, 4) # <<"0", "0", "0", "0">>
           /\ in_range(1, 1, 12) /\ in_range(2, 1, 31) /\ in_range(3, 0, 23)
           /\ in_range(4, 0, 59) /\ in_range(5, 0, 59)
        THEN Some(SubSeq(timestamp, 1, 4) \o <<"/">> \o field(1, <<"0", "1">>) \o <<"/">> \o field(2, <<"0", "1">>)
                  \o <<" ">> \o field(3, <<"0", "0">>) \o <<":">> \o field(4, <<"0", "0">>)
                  \o <<":">> \o field(5, <<"0", "0">>))
        ELSE None

\* ------------------------------------------------------- parse.py

\* A raw record (a dict of the snapshot source): keys is the set of keys the
\* dict holds; the value of a key it does not hold is never read.  The URL and
\* the timestamp are strs the code works on; the other values are only copied.
CdxKeys == {"urlkey", "timestamp", "original", "mimetype", "statuscode", "digest", "length"}

\* What the oembed endpoint answers: failure names the exception the request
\* raises ("" for none), matches are the (tweet text, user info) pairs that
\* regex.findall and the clean-up of lines 136-144 give for the html received.
RECURSIVE rstrip_space(_)
rstrip_space(t) ==
    IF Len(t) > 0 /\ t[Len(t)] = " " THEN rstrip_space(SubSeq(t, 1, Len(t) - 1)) ELSE t

\* regex_author = r"^(.*?)\s*\(": what precedes the first '(', or "" (lines 147-148)
author_from_tweet(user_info_clean) ==
    LET p == first_of(user_info_clean, 1, {"("})
    IN  IF p > Len(user_info_clean) THEN <<>> ELSE rstrip_space(SubSeq(user_info_clean, 1, p - 1))

\* the same with the try/except of embed left out: the exception leaves embed
embed_unguarded(resp) ==
    IF resp.failure # "" THEN Raise(resp.failure)
    ELSE IF resp.matches = <<>> THEN Return(None)
    ELSE Return(Some(<<[i \in 1..Len(resp.matches) |-> resp.matches[i].text],
                       [i \in 1..Len(resp.matches) |-> resp.author_name # author_from_tweet(resp.matches[i].user_info)],
                       [i \in 1..Len(resp.matches) |-> resp.matches[i].user_info]>>))

\* TwitterEmbed.embed: None, or (tweet_contents, is_retweet_flags, user_infos)
embed(resp) ==
    IF resp.failure # "" THEN Return(None)
    ELSE IF resp.matches = <<>> THEN Return(None)
    ELSE Return(Some(<<[i \in 1..Len(resp.matches) |-> resp.matches[i].text],
                       [i \in 1..Len(resp.matches) |-> resp.author_name # author_from_tweet(resp.matches[i].user_info)],
                       [i \in 1..Len(resp.matches) |-> resp.matches[i].user_info]>>))

\* lines 213-215 (and 316-318): delete_tweet_pathnames(clean_tweet_url(..))
delete_pathnames_of(cleaned) ==
    IF cleaned.exc # "" THEN cleaned ELSE Return(delete_tweet_pathnames(cleaned.val))

canonical_tweet(tweet_url, username) == delete_pathnames_of(clean_tweet_url(tweet_url, username))

\* the locals of _process_response that live across the embed call
NoFrame == [archive_url |-> <<>>, original_tweet |-> <<>>, encoded_archived_tweet |-> <<>>,
            encoded_parsed_archived_tweet |-> <<>>, encoded_tweet |-> <<>>, encoded_parsed_tweet |-> <<>>]

\* lines 217-224 (320-327): the double-status and the missing-scheme repairs
reroot(archive_url, original_tweet) ==
    IF check_double_status(archive_url, original_tweet)
    THEN delete_tweet_pathnames(S_twitter_origin \o original_tweet)
    ELSE IF ~ str_in(S_scheme_sep, original_tweet)
    THEN delete_tweet_pathnames(S_https_prefix \o original_tweet)
    ELSE original_tweet

\* lines 227-235 (330-338): the four URLs of the record; archive_prefix is
\* "https://web.archive.org/web/<timestamp>/" ("https://commoncrawl.org/<timestamp>/")
encode_urls(raw, archive_prefix, original_tweet) ==
    [archive_url |-> archive_prefix \o raw,
     original_tweet |-> original_tweet,
     encoded_archived_tweet |-> check_url_scheme(semicolon_parser(archive_prefix \o raw)),
     encoded_parsed_archived_tweet |-> check_url_scheme(semicolon_parser(archive_prefix \o original_tweet)),
     encoded_tweet |-> check_url_scheme(semicolon_parser(raw)),
     encoded_parsed_tweet |-> check_url_scheme(semicolon_parser(original_tweet))]

\* lines 213-235 once line 213 has returned or raised (cleaned)
urls_of_cleaned(raw, archive_prefix, cleaned) ==
    IF cleaned.exc # "" THEN cleaned
    ELSE Return(encode_urls(raw, archive_prefix, reroot(archive_prefix \o raw, cleaned.val)))

\* Lines 208-235 of WaybackTweetsParser._process_response, which lines 309-338
\* of CommonCrawlTweetsParser._process_response repeat with their own archive
\* root: raw is response["original"] (response["url"]), has_timestamp whether
\* the record holds "timestamp" (line 212 raises KeyError when it does not).
build_urls(raw, has_timestamp, timestamp, archive_root, username) ==
    IF ~ has_timestamp THEN Raise("KeyError")
    ELSE urls_of_cleaned(raw, archive_root \o timestamp \o <<"/">>,
                         canonical_tweet(strip_quote(check_pattern_tweet(remove_rsquo(unquote(raw)))), username))

\* the outcome of the head of _process_response: "none" is return None,
\* "raise" an exception, "go" the record goes on (frame holds its URLs)
head_of(b) ==
    IF b.exc # "" THEN [kind |-> "raise", exc |-> b.exc, frame |-> NoFrame]
    ELSE [kind |-> "go", exc |-> "", frame |-> b.val]

\* the same with lines 251-252 (351-352) left out: the text alone is set
embed_fields_text_only(content) ==
    IF content # None
    THEN [text |-> Some(semicolon_parser(content[1][1][1])), is_RT |-> None, info |-> None]
    ELSE [text |-> None, is_RT |-> None, info |-> None]

\* lines 248-252 (and 349-352): the three embed fields from embed's result
embed_fields(content) ==
    IF content # None
    THEN [text |-> Some(semicolon_parser(content[1][1][1])),
          is_RT |-> Some(content[1][2][1]),
          info |-> Some(semicolon_parser(content[1][3][1]))]
    ELSE [text |-> None, is_RT |-> None, info |-> None]

\* lines 255-271: the tweet record, or the KeyError of the first missing key
wb_record(response, frame, available) ==
    IF {"urlkey", "mimetype", "digest", "length"} \ response.keys # {} THEN Raise("KeyError")
    ELSE [exc |-> "",
          val |-> [available_tweet_text |-> available.text,
                   available_tweet_is_RT |-> available.is_RT,
                   available_tweet_info |-> available.info,
                   archived_urlkey |-> response.urlkey,
                   archived_timestamp |-> response.timestamp,
                   parsed_archived_timestamp |-> timestamp_parser(response.timestamp),
                   archived_tweet_url |-> frame.encoded_archived_tweet,
                   parsed_archived_tweet_url |-> frame.encoded_parsed_archived_tweet,
                   original_tweet_url |-> frame.encoded_tweet,
                   parsed_tweet_url |-> frame.encoded_parsed_tweet,
                   archived_mimetype |-> response.mimetype,
                   archived_statuscode |-> response.statuscode,
                   archived_digest |-> response.digest,
                   archived_length |-> response.length]]

\* lines 248-271
wb_assemble(response, frame, content) == wb_record(response, frame, embed_fields(content))

\* lines 354-370: response.get(key, "") for the four optional keys
cc_record(response, frame, available) ==
    LET get(key, value) == IF key \in response.keys THEN value ELSE ""
    IN  [exc |-> "",
         val |-> [available_tweet_text |-> available.text,
                  available_tweet_is_RT |-> available.is_RT,
                  available_tweet_info |-> available.info,
                  common_crawl_url |-> response.url,
                  common_crawl_timestamp |-> response.timestamp,
                  parsed_common_crawl_timestamp |-> timestamp_parser(response.timestamp),
                  common_crawl_tweet_url |-> frame.encoded_archived_tweet,
                  parsed_common_crawl_tweet_url |-> frame.encoded_parsed_archived_tweet,
                  original_tweet_url |-> frame.encoded_tweet,
                  parsed_tweet_url |-> frame.encoded_parsed_tweet,
                  common_crawl_mimetype |-> get("mimetype", response.mimetype),
                  common_crawl_statuscode |-> get("statuscode", response.statuscode),
                  common_crawl_digest |-> get("digest", response.digest),
                  common_crawl_length |-> get("length", response.length)]]

\* lines 349-370
cc_assemble(response, frame, content) == cc_record(response, frame, embed_fields(content))

\* ------------------------------------------------------------ inputs

\* bounds of the model
MaxRecords == 2

S_x_origin == <<"h", "t", "t", "p", "s", ":", "/", "/", "x", ".", "c", "o", "m">>
S_alice == <<"a", "l", "i", "c", "e">>
S_Alice == <<"A", "l", "i", "c", "e">>
S_bob == <<"b", "o", "b">>
S_ts2021 == <<"2", "0", "2", "1", "0", "1", "0", "1", "0", "0", "0", "0", "0", "0">>
S_ts2022 == <<"2", "0", "2", "2", "0", "2", "0", "2", "0", "0", "0", "0", "0", "0">>

\* https://x.com/alice/status/123
U_alice_123 == S_x_origin \o <<"/">> \o S_alice \o S_status \o <<"1", "2", "3">>
\* https://twitter.com/Alice/status/123
U_Alice_123 == S_twitter_root \o S_Alice \o S_status \o <<"1", "2", "3">>
\* https://x.com/alice/status/123/photo/1
U_alice_123_photo == U_alice_123 \o <<"/", "p", "h", "o", "t", "o", "/", "1">>
\* https://x.com/alice/status/456
U_alice_456 == S_x_origin \o <<"/">> \o S_alice \o S_status \o <<"4", "5", "6">>
\* https://x.com/alice/Status/123
U_alice_Status == S_x_origin \o <<"/">> \o S_alice \o <<"/", "S", "t", "a", "t", "u", "s", "/", "1", "2", "3">>
\* https://x.com/alice/status/%22/bob/status/9%22
U_quoted_status == S_x_origin \o <<"/">> \o S_alice \o S_status \o <<"%", "2", "2", "/">> \o S_bob \o S_status \o <<"9", "%", "2", "2">>
\* https://x.com/alice/status/%22bob/x;y%22
U_quoted_bare == S_x_origin \o <<"/">> \o S_alice \o S_status \o <<"%", "2", "2">> \o S_bob \o <<"/", "x", ";", "y", "%", "2", "2">>
\* https://x.com/Alice/status/123
U_x_Alice_123 == S_x_origin \o <<"/">> \o S_Alice \o S_status \o <<"1", "2", "3">>
\* https://twitter.com/bob/status/9/photo/1
U_bob_9_photo == S_twitter_root \o S_bob \o S_status \o <<"9", "/", "p", "h", "o", "t", "o", "/", "1">>
\* https:///x.com/alice/status/ (no digits)
U_no_digits == <<"h", "t", "t", "p", "s", ":", "/", "/", "/", "x", ".", "c", "o", "m", "/">> \o S_alice \o S_status

CdxRecord(original, timestamp, statuscode, missing) ==
    [keys |-> CdxKeys \ missing, urlkey |-> "urlkey", timestamp |-> timestamp, original |-> original,
     url |-> <<>>, mimetype |-> "text/html", statuscode |-> statuscode, digest |-> "digest", length |-> "1234"]

\* the raw CDX records a source sequence is drawn from
CdxPool ==
    { CdxRecord(U_alice_123, S_ts2021, "200", {}),
      CdxRecord(U_alice_123, S_ts2022, "200", {}),
      CdxRecord(U_Alice_123, S_ts2021, "200", {}),
      CdxRecord(U_alice_123_photo, S_ts2021, "200", {}),
      CdxRecord(U_alice_456, S_ts2021, "200", {}),
      CdxRecord(U_alice_456, S_ts2021, "404", {}),
      CdxRecord(U_alice_456, S_ts2021, "200", {"urlkey"}),
      CdxRecord(U_alice_456, S_ts2021, "200", {"timestamp"}),
      CdxRecord(U_alice_456, S_ts2021, "200", {"statuscode"}),
      CdxRecord(U_alice_456, S_ts2021, "200", {"original"}),
      CdxRecord(U_alice_Status, S_ts2021, "200", {}),
      CdxRecord(U_quoted_status, S_ts2021, "200", {}),
      CdxRecord(U_quoted_bare, S_ts2021, "200", {}) }

\* the same captures as Common Crawl records: the URL is under "url"
CcRecord(r) ==
    [r EXCEPT !.keys = (r.keys \ {"original"}) \cup (IF "original" \in r.keys THEN {"url"} ELSE {}),
              !.url = r.original, !.original = <<>>]

CcPool == {CcRecord(r) : r \in CdxPool}

\* the username the parser is built with
USERNAME == S_alice

\* Lines 208-235 (309-338) read the record and the username only: what they
\* return or raise, for each record a source may yield.
wb_built ==
    [r \in CdxPool |-> build_urls(r.original, "timestamp" \in r.keys, r.timestamp, S_wayback_root, USERNAME)]

cc_built ==
    [r \in CcPool |-> build_urls(r.url, "timestamp" \in r.keys, r.timestamp, S_commoncrawl_root, USERNAME)]

\* WaybackTweetsParser._process_response up to line 235
wb_process_head(response, seen) ==
    IF "original" \notin response.keys THEN [kind |-> "none", exc |-> "", frame |-> NoFrame]
    ELSE IF "statuscode" \notin response.keys THEN [kind |-> "none", exc |-> "", frame |-> NoFrame]
    ELSE IF response.statuscode # "200" THEN [kind |-> "none", exc |-> "", frame |-> NoFrame]
    ELSE IF urlparse_path(response.original) \in seen THEN [kind |-> "none", exc |-> "", frame |-> NoFrame]
    ELSE head_of(wb_built[response])

\* CommonCrawlTweetsParser._process_response up to line 338
cc_process_head(response) ==
    IF "url" \notin response.keys THEN [kind |-> "raise", exc |-> "KeyError", frame |-> NoFrame]
    ELSE head_of(cc_built[response])

SeqsUpTo(S, n) == UNION {[1..k -> S] : k \in 0..n}

\* what the oembed endpoint may answer to one request
M_alice == [text |-> <<"h", "i", ";">>, user_info |-> <<"A", "l", " ", "(", "@", "a", ")">>]
M_bob == [text |-> <<"y", "o">>, user_info |-> <<"B", "o", " ", "(", "@", "b", ")">>]

EmbedResponses ==
    { [failure |-> "ClientConnectionError", author_name |-> <<>>, matches |-> <<>>],
      [failure |-> "ClientResponseError", author_name |-> <<>>, matches |-> <<>>],
      [failure |-> "TimeoutError", author_name |-> <<>>, matches |-> <<>>],
      [failure |-> "JSONDecodeError", author_name |-> <<>>, matches |-> <<>>],
      [failure |-> "", author_name |-> <<"A", "l">>, matches |-> <<>>],
      [failure |-> "", author_name |-> <<"A", "l">>, matches |-> <<M_alice>>],
      [failure |-> "", author_name |-> <<"A", "l">>, matches |-> <<M_bob, M_alice>>] }

\* the field_options a parser may be built with: the list of main.py, and one
\* that retains a single key
FieldOptions ==
    { <<"archived_timestamp", "original_tweet_url", "archived_tweet_url", "archived_statuscode">>,
      <<"parsed_tweet_url">> }

\* the arguments the canonicalizer's operations are applied to
CanonUrls ==
    { U_alice_123, U_Alice_123, U_x_Alice_123, U_alice_123_photo, U_alice_Status, U_quoted_status,
      U_quoted_bare, U_bob_9_photo, U_no_digits, unquote(U_quoted_status), S_alice, <<>> }

CanonUsers == {S_alice, S_Alice, S_bob}

\* ------------------------------------------------------------- state

VARIABLES
    variant,      \* "cdx": a WaybackTweetsParser runs; "cc": a CommonCrawlTweetsParser;
                  \* "fetch": WaybackTweets.get_tweets runs; "canon": none of them
    source,       \* archived_tweets_response / common_crawl_response: the records the source yields
    field_options, \* the field_options the parser is built with
    idx,          \* how many records parse() has pulled from the source
    pc,           \* where parse() stands: "pull", "process", "embed" (awaiting embed()), "done"
    frame,        \* the locals of _process_response while embed() is awaited
    path_urls,    \* WaybackTweetsParser.path_urls
    out,          \* the records parse() has yielded, each with the index of its input record
    log,          \* the exceptions the except clause of parse() has printed, with the input index
    embed_calls,  \* the requests made to the oembed endpoint, with the input index
    inflight,     \* embed() calls that have not returned
    c_fn,         \* the canonicalizer operation applied ("" before the call)
    c_url,        \* its URL argument
    c_user,       \* its username argument
    c_res,        \* its outcome
    f_answers,    \* what the CDX API answers to the twitter.com and to the x.com request
    f_query,      \* get_tweets: the index in paramss of the current params
    f_pc,         \* get_tweets: "request", "rows" (suspended at the yield), "ended" (the generator
                  \* returned), "raised" (an exception left it), "idle" (not run)
    f_row,        \* get_tweets: the index in data of the next row
    f_requests,   \* the url parameter of the requests made
    f_yielded,    \* the records get_tweets has yielded, each with the index of its query
    f_raised      \* the exception that left get_tweets ("" if none)

vars ==
    <<variant, source, field_options, idx, pc, frame, path_urls, out, log, embed_calls, inflight,
      c_fn, c_url, c_user, c_res, f_answers, f_query, f_pc, f_row, f_requests, f_yielded, f_raised>>
canon_vars == <<c_fn, c_url, c_user, c_res>>
fetch_vars == <<f_answers, f_query, f_pc, f_row, f_requests, f_yielded, f_raised>>

\* get_tweets is not run
FetchIdle ==
    /\ f_answers = <<>>
    /\ f_query = 0
    /\ f_pc = "idle"
    /\ f_row = 0
    /\ f_requests = <<>>
    /\ f_yielded = <<>>
    /\ f_raised = ""

\* the record the loop body works on
response == source[idx]

Init ==
    /\ variant \in {"cdx", "cc"}
    /\ source \in SeqsUpTo(IF variant = "cdx" THEN CdxPool ELSE CcPool, MaxRecords)
    /\ field_options \in FieldOptions
    /\ idx = 0
    /\ pc = "pull"
    /\ frame = NoFrame
    /\ path_urls = {}
    /\ out = <<>>
    /\ log = <<>>
    /\ embed_calls = <<>>
    /\ inflight = 0
    /\ c_fn = "" /\ c_url = <<>> /\ c_user = <<>> /\ c_res = Return(<<>>)
    /\ FetchIdle

\* ------------------------------------------ WaybackTweetsParser.parse

\* the async for of line 277 asks the source for a record only once the loop
\* body has run to its end
wb_concurrent_pull == pc \in {"pull", "embed"}

wb_at_loop_head == pc = "pull"

\* lines 283-285: the except clause prints and the loop goes on
wb_stop_on_exception == "done"

wb_after_exception == "pull"

WB_Pull ==
    /\ variant = "cdx"
    /\ wb_at_loop_head
    /\ idx < Len(source)
    /\ idx' = idx + 1
    /\ pc' = "process"
    /\ UNCHANGED <<variant, source, field_options, frame, path_urls, out, log, embed_calls, inflight, canon_vars, fetch_vars>>

WB_Exhausted ==
    /\ variant = "cdx"
    /\ wb_at_loop_head
    /\ idx = Len(source)
    /\ pc' = "done"
    /\ UNCHANGED <<variant, source, field_options, idx, frame, path_urls, out, log, embed_calls, inflight, canon_vars, fetch_vars>>

\* lines 280-285 once _process_response has returned r or raised r.exc
WB_Finish(r) ==
    IF r.exc # ""
    THEN /\ log' = Append(log, [src |-> idx, exc |-> r.exc])
         /\ pc' = wb_after_exception
         /\ out' = out
    ELSE /\ out' = Append(out, [src |-> idx, rec |-> r.val])
         /\ pc' = "pull"
         /\ log' = log

\* what the loop does with the head's outcome h: go on to the next record,
\* print the exception, or add the path (line 237) and either await embed()
\* (line 247) or build and yield the record
WB_Head(h) ==
    IF h.kind = "none"
    THEN /\ pc' = "pull"
         /\ UNCHANGED <<frame, path_urls, out, log, embed_calls, inflight>>
    ELSE IF h.kind = "raise"
    THEN /\ log' = Append(log, [src |-> idx, exc |-> h.exc])
         /\ pc' = wb_after_exception
         /\ UNCHANGED <<frame, path_urls, out, embed_calls, inflight>>
    ELSE /\ path_urls' = path_urls \cup {urlparse_path(h.frame.encoded_parsed_tweet)}
         /\ IF is_tweet_url(h.frame.encoded_tweet)
            THEN /\ embed_calls' = Append(embed_calls, [src |-> idx, url |-> h.frame.encoded_tweet])
                 /\ inflight' = inflight + 1
                 /\ frame' = h.frame
                 /\ pc' = "embed"
                 /\ UNCHANGED <<out, log>>
            ELSE /\ WB_Finish(wb_assemble(response, h.frame, None))
                 /\ UNCHANGED <<frame, embed_calls, inflight>>

\* _process_response from line 196 to the await of line 247, or to its end
\* when embed() is not called
WB_Process ==
    /\ variant = "cdx"
    /\ pc = "process"
    /\ \E h \in {wb_process_head(response, path_urls)} : WB_Head(h)   \* the head runs once
    /\ UNCHANGED <<variant, source, field_options, idx, canon_vars, fetch_vars>>

WB_AfterEmbed(content) ==
    IF content.exc # "" THEN WB_Finish(content)
    ELSE WB_Finish(wb_assemble(response, frame, content.val))

\* embed() returns (lines 247-271), whatever the endpoint answered
WB_EmbedReturn ==
    /\ variant = "cdx"
    /\ pc = "embed"
    /\ \E resp \in EmbedResponses : WB_AfterEmbed(embed(resp))
    /\ inflight' = inflight - 1
    /\ frame' = NoFrame
    /\ UNCHANGED <<variant, source, field_options, idx, path_urls, embed_calls, canon_vars, fetch_vars>>

\* -------------------------------------- CommonCrawlTweetsParser.parse

cc_at_loop_head == pc = "pull"

\* lines 384-386 (393-395): the except clause prints and the loop goes on
cc_after_exception == "pull"

CC_Pull ==
    /\ variant = "cc"
    /\ cc_at_loop_head
    /\ idx < Len(source)
    /\ idx' = idx + 1
    /\ pc' = "process"
    /\ UNCHANGED <<variant, source, field_options, frame, path_urls, out, log, embed_calls, inflight, canon_vars, fetch_vars>>

CC_Exhausted ==
    /\ variant = "cc"
    /\ cc_at_loop_head
    /\ idx = Len(source)
    /\ pc' = "done"
    /\ UNCHANGED <<variant, source, field_options, idx, frame, path_urls, out, log, embed_calls, inflight, canon_vars, fetch_vars>>

\* lines 382-386 once _process_response has returned r or raised r.exc
CC_Finish(r) ==
    IF r.exc # ""
    THEN /\ log' = Append(log, [src |-> idx, exc |-> r.exc])
         /\ pc' = cc_after_exception
         /\ out' = out
    ELSE /\ out' = Append(out, [src |-> idx, rec |-> r.val])
         /\ pc' = "pull"
         /\ log' = log

CC_Head(h) ==
    IF h.kind = "raise"
    THEN /\ log' = Append(log, [src |-> idx, exc |-> h.exc])
         /\ pc' = cc_after_exception
         /\ UNCHANGED <<frame, out, embed_calls, inflight>>
    ELSE IF is_tweet_url(h.frame.encoded_tweet)
    THEN /\ embed_calls' = Append(embed_calls, [src |-> idx, url |-> h.frame.encoded_tweet])
         /\ inflight' = inflight + 1
         /\ frame' = h.frame
         /\ pc' = "embed"
         /\ UNCHANGED <<out, log>>
    ELSE /\ CC_Finish(cc_assemble(response, h.frame, None))
         /\ UNCHANGED <<frame, embed_calls, inflight>>

\* _process_response from line 309 to the await of line 348, or to its end
CC_Process ==
    /\ variant = "cc"
    /\ pc = "process"
    /\ CC_Head(cc_process_head(response))
    /\ UNCHANGED <<variant, source, field_options, idx, path_urls, canon_vars, fetch_vars>>

CC_AfterEmbed(content) ==
    IF content.exc # "" THEN CC_Finish(content)
    ELSE CC_Finish(cc_assemble(response, frame, content.val))

\* embed() returns (lines 348-370)
CC_EmbedReturn ==
    /\ variant = "cc"
    /\ pc = "embed"
    /\ \E resp \in EmbedResponses : CC_AfterEmbed(embed(resp))
    /\ inflight' = inflight - 1
    /\ frame' = NoFrame
    /\ UNCHANGED <<variant, source, field_options, idx, path_urls, embed_calls, canon_vars, fetch_vars>>

Next ==
    \/ WB_Pull
    \/ WB_Exhausted
    \/ WB_Process
    \/ WB_EmbedReturn
    \/ CC_Pull
    \/ CC_Exhausted
    \/ CC_Process
    \/ CC_EmbedReturn

Spec == Init /\ [][Next]_vars

\* ------------------------------------ the canonicalizer's operations

\* One operation of utils.py is applied to arguments drawn from CanonUrls and
\* CanonUsers; c_res is what it returns (a bool as a one-element sequence) or
\* the exception it raises.
InitCanon ==
    /\ variant = "canon"
    /\ source = <<>>
    /\ field_options = <<>>
    /\ FetchIdle
    /\ idx = 0
    /\ pc = "done"
    /\ frame = NoFrame
    /\ path_urls = {}
    /\ out = <<>>
    /\ log = <<>>
    /\ embed_calls = <<>>
    /\ inflight = 0
    /\ c_fn = ""
    /\ c_url \in CanonUrls
    /\ c_user \in CanonUsers
    /\ c_res = Return(<<>>)

parser_vars == <<variant, source, field_options, idx, pc, frame, path_urls, out, log, embed_calls, inflight>>

Called(fn, res) ==
    /\ c_fn = ""
    /\ c_fn' = fn
    /\ c_res' = res
    /\ UNCHANGED <<c_url, c_user, parser_vars, fetch_vars>>

Call_check_pattern_tweet == Called("check_pattern_tweet", Return(check_pattern_tweet(c_url)))

Call_clean_tweet_url == Called("clean_tweet_url", clean_tweet_url(c_url, c_user))

Call_delete_tweet_pathnames == Called("delete_tweet_pathnames", Return(delete_tweet_pathnames(c_url)))

Call_canonical_tweet == Called("canonical_tweet", canonical_tweet(c_url, c_user))

Call_semicolon_parser == Called("semicolon_parser", Return(semicolon_parser(c_url)))

Call_check_url_scheme == Called("check_url_scheme", Return(check_url_scheme(c_url)))

Call_check_double_status ==
    \E original \in CanonUrls :
        Called("check_double_status", Return(<<check_double_status(S_wayback_root \o S_ts2021 \o <<"/">> \o c_url, original)>>))

Call_is_tweet_url == Called("is_tweet_url", Return(<<is_tweet_url(c_url)>>))

NextCanon ==
    \/ Call_check_pattern_tweet
    \/ Call_clean_tweet_url
    \/ Call_delete_tweet_pathnames
    \/ Call_canonical_tweet
    \/ Call_semicolon_parser
    \/ Call_check_url_scheme
    \/ Call_check_double_status
    \/ Call_is_tweet_url

SpecCanon == InitCanon /\ [][NextCanon]_vars

\* -------------------------------------------------------- properties

\* the input indices of the entries of out, log or embed_calls
SrcsOf(entries) == {entries[i].src : i \in DOMAIN entries}

\* the loop body has run to its end for input record k
Completed(k) == k < idx \/ (k = idx /\ pc \in {"pull", "done"})

\* the normalized path of an emitted record
normalized_path(entry) == urlparse_path(entry.rec.parsed_tweet_url)

\* C1: a WaybackTweetsParser never yields two records with the same normalized
\* path (the URL path of parsed_tweet_url): of the input records that
\* canonicalize to one path at most one is emitted.
C1_NoTwoEmittedShareNormalizedPath ==
    variant = "cdx" =>
        \A i, j \in DOMAIN out : i < j => normalized_path(out[i]) # normalized_path(out[j])

\* the record of the end-to-end example
R_alice_123 == CdxRecord(U_alice_123, S_ts2021, "200", {})

\* https://twitter.com/alice/status/123
U_canonical_alice_123 == S_twitter_root \o S_alice \o S_status \o <<"1", "2", "3">>

\* https://web.archive.org/web/20210101000000/https://x.com/alice/status/123
U_archived_alice_123 == S_wayback_root \o S_ts2021 \o <<"/">> \o U_alice_123

\* the example record is the first of the source and its processing is over
C2_ExampleProcessed ==
    /\ variant = "cdx"
    /\ Len(source) >= 1
    /\ source[1] = R_alice_123
    /\ Completed(1)

\* C2 (as the code has it): with username alice and an empty path_urls, the
\* record {statuscode "200", original https://x.com/alice/status/123,
\* timestamp 20210101000000} is emitted with parsed_tweet_url
\* https://twitter.com/alice/status/123, original_tweet_url
\* https://x.com/alice/status/123 and archived_tweet_url
\* https://web.archive.org/web/20210101000000/https://x.com/alice/status/123.
C2_EndToEnd_Amended ==
    C2_ExampleProcessed =>
        \E i \in DOMAIN out :
            /\ out[i].src = 1
            /\ out[i].rec.parsed_tweet_url = U_canonical_alice_123
            /\ out[i].rec.original_tweet_url = U_alice_123
            /\ out[i].rec.archived_tweet_url = U_archived_alice_123

\* C2 (as stated): the emitted record's original_tweet_url equals
\* https://twitter.com/alice/status/123 and its archived_tweet_url equals
\* https://web.archive.org/web/20210101000000/https://x.com/alice/status/123.
C2_EndToEnd_AsStated ==
    C2_ExampleProcessed =>
        \E i \in DOMAIN out :
            /\ out[i].src = 1
            /\ out[i].rec.original_tweet_url = U_canonical_alice_123
            /\ out[i].rec.archived_tweet_url = U_archived_alice_123

\* the example record has been processed and a record emitted for it
C2_Witness ==
    /\ C2_ExampleProcessed
    /\ idx = 1
    /\ pc = "pull"
    /\ 1 \in SrcsOf(out)

\* the positions of the well-formed /status/<digits> segments of a URL
status_segments(url) ==
    {i \in 1..Len(url) : StartsAt(url, i, S_status) /\ i + 8 <= Len(url) /\ url[i + 8] \in Digits}

\* the <digits> of the segment at position i
segment_digits(url, i) == SubSeq(url, i + 8, run_end(url, i + 8, Digits) - 1)

\* the username appears in the URL, letter case set aside
appears_case_insensitively(username, url) == str_in(str_lower(username), str_lower(url))

\* C3: for a URL with exactly one well-formed /status/<digits> segment in which
\* the username appears case-insensitively, clean_tweet_url followed by
\* delete_tweet_pathnames returns https://twitter.com/<username>/status/<digits>;
\* a URL with no /status/<digits>, or in which the username does not appear,
\* is returned unchanged.
C3_CanonicalForm ==
    c_fn = "canonical_tweet" =>
        LET segments == status_segments(c_url)
            named == appears_case_insensitively(c_user, c_url)
        IN  /\ (Cardinality(segments) = 1 /\ named) =>
                   c_res = Return(S_twitter_root \o c_user \o S_status \o segment_digits(c_url, Min(segments)))
            /\ (segments = {} \/ ~ named) => c_res = Return(c_url)

EmbedFailures == {resp.failure : resp \in EmbedResponses} \ {""}

\* the keys lines 255-270 read with response[...]
RecordKeys == {"urlkey", "timestamp", "mimetype", "statuscode", "digest", "length"}

\* the three embed fields of a record are all unset
embed_fields_unset(rec) ==
    /\ rec.available_tweet_text = None
    /\ rec.available_tweet_is_RT = None
    /\ rec.available_tweet_info = None

\* C5: embed never raises to its caller: on a timeout, a connection failure, a
\* non-2xx status, a malformed response or no pattern match it returns None;
\* no exception of the request reaches parse(), embed is called once per
\* record, and the record the call was made for is then emitted all the same
\* (a record holding the keys lines 255-270 read), its three embed fields
\* unset together or set together.
C5_EmbedNeverRaises ==
    /\ \A resp \in EmbedResponses :
           /\ embed(resp).exc = ""
           /\ (resp.failure # "" \/ resp.matches = <<>>) => embed(resp) = Return(None)
    /\ \A i \in DOMAIN log : log[i].exc \notin EmbedFailures
    /\ \A i, j \in DOMAIN embed_calls : embed_calls[i].src = embed_calls[j].src => i = j
    /\ \A k \in SrcsOf(embed_calls) :
           (Completed(k) /\ (variant = "cc" \/ RecordKeys \subseteq source[k].keys)) =>
               \E i \in DOMAIN out :
                   /\ out[i].src = k
                   /\ \/ embed_fields_unset(out[i].rec)
                      \/ /\ out[i].rec.available_tweet_text # None
                         /\ out[i].rec.available_tweet_is_RT # None
                         /\ out[i].rec.available_tweet_info # None

\* embed was called for the first record, returned None, and the record was
\* emitted with its embed fields unset
C5_Witness ==
    /\ 1 \in SrcsOf(embed_calls)
    /\ Len(out) >= 1
    /\ out[1].src = 1
    /\ embed_fields_unset(out[1].rec)

\* a CDX record the gate is to reject
rejected_by_policy(r) == CdxKeys \ r.keys # {} \/ r.statuscode # "200"

C6_GateStep ==
    (variant = "cdx" /\ pc = "process" /\ rejected_by_policy(response)) =>
        /\ out' = out
        /\ path_urls' = path_urls
        /\ embed_calls' = embed_calls

\* C6: a CDX record whose statuscode is not "200", or that lacks one of urlkey,
\* timestamp, original, mimetype, statuscode, digest, length, is rejected at
\* the gate: processing it emits no record, leaves path_urls unchanged and
\* does not call embed.
C6_RejectedAtGate == [][C6_GateStep]_vars

\* C7: a CommonCrawlTweetsParser never yields two records with the same
\* normalized path (the URL path of parsed_tweet_url): a record whose path was
\* already emitted is dropped.
C7_CommonCrawlDeduplicates ==
    variant = "cc" =>
        \A i, j \in DOMAIN out : i < j => normalized_path(out[i]) # normalized_path(out[j])

\* C8: records are processed one after the other: at most one embed call is in
\* flight, and while record idx is being processed (its embed call awaited or
\* not yet made) every earlier record is complete, nothing has been emitted or
\* logged for record idx or a later one, and the call in flight is the one
\* made for record idx; records are emitted and logged in input order.
C8_StrictlySequential ==
    /\ inflight \in {0, 1}
    /\ inflight = 1 <=> pc = "embed"
    /\ pc = "embed" =>
           /\ embed_calls # <<>>
           /\ embed_calls[Len(embed_calls)].src = idx
    /\ pc \in {"process", "embed"} => idx \notin SrcsOf(out) \cup SrcsOf(log)
    /\ pc = "process" => idx \notin SrcsOf(embed_calls)
    /\ \A k \in SrcsOf(out) \cup SrcsOf(log) \cup SrcsOf(embed_calls) : k <= idx
    /\ \A i, j \in DOMAIN out : i < j => out[i].src < out[j].src
    /\ \A i, j \in DOMAIN embed_calls : i < j => embed_calls[i].src < embed_calls[j].src

\* the embed call of the second record is in flight, after the embed call of
\* the first record has returned and the first record has been emitted
C8_Witness ==
    /\ pc = "embed"
    /\ idx = 2
    /\ inflight = 1
    /\ 1 \in SrcsOf(embed_calls)
    /\ 1 \in SrcsOf(out)

\* the URLs steps 1-6 give a CDX record (lines 208-235)
final_candidate(r) == wb_built[r]

C9_DedupStep ==
    (/\ variant = "cdx"
     /\ pc = "process"
     /\ ~ rejected_by_policy(response)
     /\ final_candidate(response).exc = "") =>
        LET path == urlparse_path(final_candidate(response).val.encoded_parsed_tweet)
        IN  IF path \in path_urls
            THEN /\ embed_calls' = embed_calls
                 /\ path_urls' = path_urls
                 /\ out' = out
            ELSE path \in path_urls'

\* C9: when the path of a CDX record's final candidate URL is already in
\* path_urls the record is dropped without further processing (embed is not
\* called, path_urls is unchanged, nothing is emitted); otherwise the path is
\* inserted.
C9_DropWhenFinalPathSeen == [][C9_DedupStep]_vars

\* the operations of the canonicalizer
CanonicalizerOperations ==
    {"check_pattern_tweet", "clean_tweet_url", "delete_tweet_pathnames", "semicolon_parser",
     "check_url_scheme", "check_double_status", "is_tweet_url"}

\* C10: every operation of the canonicalizer is total: whatever the URL and
\* the username, /Status/123 included, it returns a value and never raises.
C10_CanonicalizerTotal ==
    c_fn \in CanonicalizerOperations => c_res.exc = ""

\* the keys field_options names
allowed_keys == {field_options[i] : i \in DOMAIN field_options}

\* C11: every record parse() yields (either parser) holds only keys that
\* field_options names.
C11_OnlyAllowedKeys ==
    \A i \in DOMAIN out : DOMAIN out[i].rec \subseteq allowed_keys

\* ------------------------------------------- WaybackTweets.get_tweets

\* bound of the model: the data rows of one answer of the CDX API
MaxRows == 2

\* lines 51-61: the url parameter of the two requests (matchtype is None)
S_status_wildcard == <<"/", "s", "t", "a", "t", "u", "s", "/", "*">>

paramss ==
    << S_twitter_root \o USERNAME \o S_status_wildcard,
       S_x_origin \o <<"/">> \o USERNAME \o S_status_wildcard >>

\* the header row of an answer and the data rows it may hold
CdxHeader == <<"urlkey", "timestamp", "original">>

CdxRows ==
    { <<"com,twitter)/alice/status/1", "20210101000000", "https://twitter.com/alice/status/1">>,
      <<"com,x)/alice/status/2", "20220202000000", "https://x.com/alice/status/2">> }

\* What the CDX API answers to one request: failure names the exception of
\* session.get / raise_for_status / response.json ("" if none), data is the
\* decoded JSON (empty, the header row alone, or the header row and rows).
CdxAnswers ==
    { [failure |-> f, data |-> <<>>] : f \in {"ClientConnectionError", "ClientResponseError", "TimeoutError"} }
    \cup { [failure |-> "", data |-> <<>>], [failure |-> "", data |-> <<CdxHeader>>] }
    \cup { [failure |-> "", data |-> <<CdxHeader>> \o rows] : rows \in SeqsUpTo(CdxRows, MaxRows) \ {<<>>} }

\* the exceptions `except aiohttp.ClientError` catches (line 82)
ClientErrors == {"ClientConnectionError", "ClientResponseError"}

\* dict(zip(headers, row)): the pairs up to the shorter length, a repeated key
\* keeping its last value
zip_dict(headers, row) ==
    LET n == IF Len(headers) <= Len(row) THEN Len(headers) ELSE Len(row)
        last(k) == CHOOSE i \in 1..n : headers[i] = k /\ \A j \in 1..n : headers[j] = k => j <= i
    IN  [k \in {headers[i] : i \in 1..n} |-> row[last(k)]]

InitFetch ==
    /\ variant = "fetch"
    /\ source = <<>>
    /\ field_options = <<>>
    /\ idx = 0
    /\ pc = "done"
    /\ frame = NoFrame
    /\ path_urls = {}
    /\ out = <<>>
    /\ log = <<>>
    /\ embed_calls = <<>>
    /\ inflight = 0
    /\ c_fn = "" /\ c_url = <<>> /\ c_user = <<>> /\ c_res = Return(<<>>)
    /\ f_answers \in [1..2 -> CdxAnswers]
    /\ f_query = 1
    /\ f_pc = "request"
    /\ f_row = 0
    /\ f_requests = <<>>
    /\ f_yielded = <<>>
    /\ f_raised = ""

\* lines 77-90 for the answer the API gives: the ClientError is printed and the
\* generator returns; another exception leaves it; no data row, it returns;
\* else the loop over data[1:] starts
GT_Answered(answer) ==
    IF answer.failure \in ClientErrors
    THEN f_pc' = "ended" /\ UNCHANGED <<f_row, f_raised>>
    ELSE IF answer.failure # ""
    THEN f_pc' = "raised" /\ f_raised' = answer.failure /\ UNCHANGED f_row
    ELSE IF Len(answer.data) < 2
    THEN f_pc' = "ended" /\ UNCHANGED <<f_row, f_raised>>
    ELSE f_pc' = "rows" /\ f_row' = 2 /\ UNCHANGED f_raised

\* lines 62-90: the request of the current params
GT_Request ==
    /\ variant = "fetch"
    /\ f_pc = "request"
    /\ f_requests' = Append(f_requests, paramss[f_query])
    /\ GT_Answered(f_answers[f_query])
    /\ UNCHANGED <<f_answers, f_query, f_yielded, parser_vars, canon_vars>>

\* lines 93-96: one row is yielded; after the last row of the answer the loop
\* of line 62 goes to the next params, or the generator ends
GT_Yield ==
    /\ variant = "fetch"
    /\ f_pc = "rows"
    /\ f_yielded' = Append(f_yielded, [query |-> f_query,
                                       rec |-> zip_dict(f_answers[f_query].data[1], f_answers[f_query].data[f_row])])
    /\ IF f_row < Len(f_answers[f_query].data)
       THEN f_row' = f_row + 1 /\ UNCHANGED <<f_query, f_pc>>
       ELSE IF f_query < Len(paramss)
       THEN f_query' = f_query + 1 /\ f_pc' = "request" /\ f_row' = 0
       ELSE f_pc' = "ended" /\ UNCHANGED <<f_query, f_row>>
    /\ UNCHANGED <<f_answers, f_requests, f_raised, parser_vars, canon_vars>>

NextFetch ==
    \/ GT_Request
    \/ GT_Yield

SpecFetch == InitFetch /\ [][NextFetch]_vars

\* the request of query q was made and failed
request_failed(q) == q \in DOMAIN f_requests /\ f_answers[q].failure # ""

\* C12: a failure of the CDX request (a connection failure, an HTTP error)
\* propagates unmodified to the caller iterating get_tweets(): the generator
\* raises that exception and does not end as if the source were exhausted.
C12_SourceFailurePropagates ==
    \A q \in 1..2 :
        request_failed(q) => (f_pc = "raised" /\ f_raised = f_answers[q].failure)

\* the records of one answer: the header zipped with each data row
rows_of(answer) ==
    IF answer.failure # "" \/ Len(answer.data) < 2 THEN <<>>
    ELSE [i \in 1..(Len(answer.data) - 1) |-> zip_dict(answer.data[1], answer.data[i + 1])]

\* C17: get_tweets issues the twitter.com request and then the x.com request
\* and yields every data row of both answers, zipped with the header, the
\* twitter.com rows first, whatever the twitter.com request gave (no data, the
\* header only, or an error).
C17_BothQueriesYielded ==
    f_pc \in {"ended", "raised"} =>
        /\ f_requests = paramss
        /\ [i \in DOMAIN f_yielded |-> f_yielded[i].rec] = rows_of(f_answers[1]) \o rows_of(f_answers[2])
        /\ \A i, j \in DOMAIN f_yielded : i < j => f_yielded[i].query <= f_yielded[j].query

\* C13: between records, every path in a WaybackTweetsParser's path_urls is
\* the parsed_tweet_url path of a record that was emitted: a record that is
\* dropped (rejected, duplicate, or failing with an exception) adds nothing.
C13_PathsAreOfEmittedRecords ==
    (variant = "cdx" /\ pc \in {"pull", "done"}) =>
        path_urls \subseteq {normalized_path(out[i]) : i \in DOMAIN out}

\* the three embed fields of a record are all set
embed_fields_set(rec) ==
    /\ rec.available_tweet_text # None
    /\ rec.available_tweet_is_RT # None
    /\ rec.available_tweet_info # None

\* the three embed fields hold the first match of the answer resp
holds_first_match(rec, resp) ==
    /\ resp.failure = ""
    /\ resp.matches # <<>>
    /\ rec.available_tweet_text = Some(semicolon_parser(resp.matches[1].text))
    /\ rec.available_tweet_is_RT = Some(resp.author_name # author_from_tweet(resp.matches[1].user_info))
    /\ rec.available_tweet_info = Some(semicolon_parser(resp.matches[1].user_info))

\* C14: in every record either parser emits, available_tweet_text,
\* available_tweet_is_RT and available_tweet_info are all None or all set; they
\* are set only if embed was called for the record (its original_tweet_url
\* holds "/status/" exactly once) and returned a result, and they then hold
\* the first match of that result.
C14_EmbedFieldsAllOrNothing ==
    \A i \in DOMAIN out :
        /\ embed_fields_unset(out[i].rec) \/ embed_fields_set(out[i].rec)
        /\ out[i].src \notin SrcsOf(embed_calls) => embed_fields_unset(out[i].rec)
        /\ ~ embed_fields_unset(out[i].rec) =>
               /\ str_count(out[i].rec.original_tweet_url, S_status) = 1
               /\ \E c \in DOMAIN embed_calls :
                      embed_calls[c].src = out[i].src /\ embed_calls[c].url = out[i].rec.original_tweet_url
               /\ \E resp \in EmbedResponses : holds_first_match(out[i].rec, resp)

\* a record was emitted with the first of the two matches of an answer (the
\* retweet of bob), and another with no embed call made for it
C14_Witness ==
    /\ Len(out) = 2
    /\ holds_first_match(out[1].rec, [failure |-> "", author_name |-> <<"A", "l">>, matches |-> <<M_bob, M_alice>>])
    /\ out[1].rec.available_tweet_is_RT = Some(TRUE)
    /\ out[2].src \notin SrcsOf(embed_calls)
    /\ embed_fields_unset(out[2].rec)

\* ------------------------------- the encoding of the URLs of a record

\* bound of the model: the pieces a URL is made of
MaxPieces == 4

\* the pieces: the two schemes, one and two slashes, a semicolon, a letter
UrlPieces ==
    { S_http_colon, S_https_colon, <<"/">>, <<"/", "/">>, <<";">>, <<"a">> }

\* the strings the encoding is applied to
PiecedUrls == {join(pieces) : pieces \in SeqsUpTo(UrlPieces, MaxPieces)}

InitEncode ==
    /\ variant = "canon"
    /\ source = <<>>
    /\ field_options = <<>>
    /\ idx = 0
    /\ pc = "done"
    /\ frame = NoFrame
    /\ path_urls = {}
    /\ out = <<>>
    /\ log = <<>>
    /\ embed_calls = <<>>
    /\ inflight = 0
    /\ FetchIdle
    /\ c_fn = ""
    /\ c_url \in PiecedUrls
    /\ c_user = <<>>
    /\ c_res = Return(<<>>)

\* parse.py lines 227-235 (330-338): the semicolons are escaped, then the
\* scheme is repaired
Call_encoded == Called("encoded", Return(check_url_scheme(semicolon_parser(c_url))))

\* the scheme is repaired, then the semicolons are escaped
Call_escaped_last == Called("escaped_last", Return(semicolon_parser(check_url_scheme(c_url))))

NextEncode ==
    \/ Call_encoded
    \/ Call_escaped_last

SpecEncode == InitEncode /\ [][NextEncode]_vars

\* a scheme followed by three slashes or more
S_http_3 == S_http_colon \o <<"/", "/", "/">>
S_https_3 == S_https_colon \o <<"/", "/", "/">>

\* C15: check_url_scheme(semicolon_parser(u)), the order the parsers apply,
\* equals semicolon_parser(check_url_scheme(u)); the result holds no ';' and
\* no "http:" or "https:" followed by three slashes or more.
C15_EncodingCommutes ==
    /\ c_fn = "encoded" =>
           /\ c_res = Return(semicolon_parser(check_url_scheme(c_url)))
           /\ ~ str_in(<<";">>, c_res.val)
           /\ ~ str_in(S_http_3, c_res.val)
           /\ ~ str_in(S_https_3, c_res.val)
    /\ c_fn = "escaped_last" =>
           /\ c_res = Return(check_url_scheme(semicolon_parser(c_url)))
           /\ ~ str_in(<<";">>, c_res.val)
           /\ ~ str_in(S_http_3, c_res.val)
           /\ ~ str_in(S_https_3, c_res.val)

\* the URL held a semicolon and a scheme with three slashes, and both were
\* rewritten
C15_Witness ==
    /\ c_fn = "encoded"
    /\ str_in(<<";">>, c_url)
    /\ str_in(S_https_3, c_url)
    /\ c_res.val # c_url
    /\ str_in(S_pct3B, c_res.val)

\* ----------------------- WaybackTweetsParser.parse run to its end

\* a WaybackTweetsParser alone
InitWB == Init /\ variant = "cdx"

NextWB ==
    \/ WB_Pull
    \/ WB_Exhausted
    \/ WB_Process
    \/ WB_EmbedReturn

\* The event loop resumes parse() whenever it can go on: the source yields
\* its next record or its end, and each embed call returns.
SpecWBFair == InitWB /\ [][NextWB]_vars /\ WF_vars(NextWB)

\* C16: for every finite source, whatever rejections, duplicates, exceptions
\* and embed failures occur, WaybackTweetsParser.parse finishes, having pulled
\* every record of the source once, one after the other; it emits at most one
\* record for an input record, in the order of the input records.
C16_ParseFinishes ==
    /\ <>(pc = "done" /\ idx = Len(source))
    /\ [][idx' = idx \/ (idx' = idx + 1 /\ idx' <= Len(source))]_vars
    /\ [](\A i, j \in DOMAIN out : i < j => out[i].src < out[j].src)
    /\ [](SrcsOf(out) \subseteq 1..idx)

\* parse() has finished on a source of two records: the first was rejected
\* for its status code, the second emitted after its embed call failed or
\* matched nothing
C16_Witness ==
    /\ variant = "cdx"
    /\ pc = "done"
    /\ idx = 2
    /\ Len(source) = 2
    /\ source[1].statuscode = "404"
    /\ SrcsOf(out) = {2}
    /\ 2 \in SrcsOf(embed_calls)
    /\ embed_fields_unset(out[1].rec)

====
